---- MODULE Spec2Model ----
(***************************************************************************)
(* A model of package netdb (netdb.go): init() parses /etc/protocols and   *)
(* /etc/services into the package variables Protocols and Services, and    *)
(* four lookup functions scan them.                                        *)
(*                                                                         *)
(* A Go string is modelled as a sequence of one-character strings, so that *)
(* strings.TrimSpace, strings.Split, strings.SplitN, strings.Fields and    *)
(* strconv.ParseInt are computed character by character.                   *)
(***************************************************************************)
EXTENDS Integers, Sequences, FiniteSets

VARIABLES
    protoFile,  \* /etc/protocols: [readable, text]
    servFile,   \* /etc/services:  [readable, text]
    pc,         \* where the process is: "start", "protocols", "services",
                \* "ready" (init has returned, main runs), "panicked"
    lines,      \* the slice the current range loop of init iterates over
    idx,        \* 1-based position of that loop
    Protocols,  \* var Protocols []Protoent
    Services,   \* var Services []Servent
    err,        \* the value init panicked with, "nil" when it has not
    ret         \* the last lookup call made by the program and what it returned

vars == <<protoFile, servFile, pc, lines, idx, Protocols, Services, err, ret>>

-----------------------------------------------------------------------------
(* Bounds of the model *)

\* lines per generated multi-line source text
MaxLines == 2
\* characters of a generated single-line source text
MaxLineLen == 6

\* bitSize 32 of strconv.ParseInt(_, 10, 32): the largest accepted value
MaxInt32 == 2147483647

-----------------------------------------------------------------------------
(* Characters and the library string functions init uses *)

Digits == {"0", "1", "2", "3", "4", "5", "6", "7", "8", "9"}

DigitVal(c) ==
    CASE c = "0" -> 0 [] c = "1" -> 1 [] c = "2" -> 2 [] c = "3" -> 3
      [] c = "4" -> 4 [] c = "5" -> 5 [] c = "6" -> 6 [] c = "7" -> 7
      [] c = "8" -> 8 [] c = "9" -> 9

\* unicode.IsSpace, restricted to the white space the generated texts use
WhiteSpace == {" ", "\t", "\n", "\r"}

IsSpace(c) == c \in WhiteSpace

RECURSIVE TrimLeft(_)
TrimLeft(s) ==
    IF s # <<>> /\ IsSpace(Head(s)) THEN TrimLeft(Tail(s)) ELSE s

RECURSIVE TrimRight(_)
TrimRight(s) ==
    IF s # <<>> /\ IsSpace(s[Len(s)])
    THEN TrimRight(SubSeq(s, 1, Len(s) - 1))
    ELSE s

\* strings.TrimSpace
TrimSpace(s) == TrimRight(TrimLeft(s))

\* strings.Index for a one-character separator, 1-based; 0 when absent
RECURSIVE IndexFrom(_, _, _)
IndexFrom(s, c, i) ==
    IF i > Len(s) THEN 0
    ELSE IF s[i] = c THEN i
    ELSE IndexFrom(s, c, i + 1)

Index(s, c) == IndexFrom(s, c, 1)

\* strings.Split(s, sep) for a one-character sep: every piece between
\* separators, empty pieces included (Split("", sep) is one empty piece)
RECURSIVE Split(_, _)
Split(s, sep) ==
    LET i == Index(s, sep)
    IN  IF i = 0 THEN <<s>>
        ELSE <<SubSeq(s, 1, i - 1)>> \o Split(SubSeq(s, i + 1, Len(s)), sep)

\* strings.SplitN(s, sep, 2): cut at the first sep only; the second piece is
\* the unsplit remainder; one piece when s holds no sep
SplitN(s, sep) ==
    LET i == Index(s, sep)
    IN  IF i = 0 THEN <<s>>
        ELSE <<SubSeq(s, 1, i - 1), SubSeq(s, i + 1, Len(s))>>

\* strings.Fields: the maximal runs of non-space characters
RECURSIVE FieldsScan(_, _, _, _)
FieldsScan(s, i, cur, acc) ==
    IF i > Len(s)
    THEN IF cur = <<>> THEN acc ELSE Append(acc, cur)
    ELSE IF IsSpace(s[i])
         THEN FieldsScan(s, i + 1, <<>>, IF cur = <<>> THEN acc ELSE Append(acc, cur))
         ELSE FieldsScan(s, i + 1, Append(cur, s[i]), acc)

Fields(s) == FieldsScan(s, 1, <<>>, <<>>)

\* strconv.ParseUint(s, 10, 32): the digit loop.  The value n is kept in two
\* limbs, n = hi * 100000 + lo, so that values up to 2^32 - 1 = 42949 67295
\* are computed within TLC's 32-bit integers.  A character that is no digit
\* is a syntax error; n * 10 + d beyond 2^32 - 1 is a range error; whichever
\* comes first from the left.
RECURSIVE ParseUintLoop(_, _, _, _)
ParseUintLoop(s, i, hi, lo) ==
    IF i > Len(s) THEN [err |-> "nil", hi |-> hi, lo |-> lo]
    ELSE IF s[i] \notin Digits THEN [err |-> "ErrSyntax", hi |-> 0, lo |-> 0]
    ELSE LET t   == (lo * 10) + DigitVal(s[i])
             hi1 == (hi * 10) + (t \div 100000)
             lo1 == t % 100000
         IN  IF hi1 > 42949 \/ (hi1 = 42949 /\ lo1 > 67295)
             THEN [err |-> "ErrRange", hi |-> 0, lo |-> 0]
             ELSE ParseUintLoop(s, i + 1, hi1, lo1)

ParseUint(s) ==
    IF s = <<>> THEN [err |-> "ErrSyntax", hi |-> 0, lo |-> 0]
    ELSE ParseUintLoop(s, 1, 0, 0)

\* strconv.ParseInt(s, 10, 32): an optional sign, then ParseUint; the
\* magnitude must be below the cutoff 2^31 = 21474 83648, or equal to it for a
\* negative number
ParseInt(s) ==
    IF s = <<>> THEN [err |-> "ErrSyntax", val |-> 0]
    ELSE LET neg  == s[1] = "-"
             rest == IF s[1] \in {"+", "-"} THEN Tail(s) ELSE s
             un   == ParseUint(rest)
             atCutoff    == un.hi = 21474 /\ un.lo = 83648
             aboveCutoff == un.hi > 21474 \/ (un.hi = 21474 /\ un.lo > 83648)
         IN  IF un.err # "nil" THEN [err |-> un.err, val |-> 0]
             ELSE IF ~neg /\ (atCutoff \/ aboveCutoff) THEN [err |-> "ErrRange", val |-> 0]
             ELSE IF neg /\ aboveCutoff THEN [err |-> "ErrRange", val |-> 0]
             ELSE [err |-> "nil",
                   val |-> IF neg THEN (-(un.hi * 100000)) - un.lo
                           ELSE (un.hi * 100000) + un.lo]

-----------------------------------------------------------------------------
(* The records *)

\* Protoent{}, the zero value
ZeroProtoent == [Name |-> <<>>, Aliases |-> <<>>, Number |-> 0]

\* Servent{}, the zero value
ZeroServent == [Name |-> <<>>, Aliases |-> <<>>, Port |-> 0, Protocol |-> <<>>]

-----------------------------------------------------------------------------
(* The body of the two range loops of init, for one line *)

\* Faulty variant: a protocol number that does not parse skips the line
ProtoLineOutcome_SkipBadNumber(rawline) ==
    LET line   == TrimSpace(rawline)
        split  == SplitN(line, "#")
        fields == Fields(split[1])
    IN  IF Len(fields) < 2 \/ ParseInt(fields[2]).err # "nil"
        THEN [kind |-> "continue", err |-> "nil", rec |-> ZeroProtoent]
        ELSE [kind |-> "append", err |-> "nil",
              rec  |-> [Name    |-> fields[1],
                        Aliases |-> SubSeq(fields, 3, Len(fields)),
                        Number  |-> ParseInt(fields[2]).val]]

\* Faulty variant: the length test is len(fields) < 1, so a one-field line
\* reaches fields[1]
ProtoLineOutcome_OneFieldLimit(rawline) ==
    LET line   == TrimSpace(rawline)
        split  == SplitN(line, "#")
        fields == Fields(split[1])
    IN  IF Len(fields) < 1
        THEN [kind |-> "continue", err |-> "nil", rec |-> ZeroProtoent]
        ELSE IF Len(fields) < 2
        THEN [kind |-> "panic", err |-> "IndexOutOfRange", rec |-> ZeroProtoent]
        ELSE LET num == ParseInt(fields[2])
             IN  IF num.err # "nil"
                 THEN [kind |-> "panic", err |-> num.err, rec |-> ZeroProtoent]
                 ELSE [kind |-> "append", err |-> "nil",
                       rec  |-> [Name    |-> fields[1],
                                 Aliases |-> SubSeq(fields, 3, Len(fields)),
                                 Number  |-> num.val]]

\* One iteration of the protocols loop: "continue", "panic" with the error,
\* or "append" with the record
ProtoLineOutcome(rawline) ==
    LET line   == TrimSpace(rawline)
        split  == SplitN(line, "#")
        fields == Fields(split[1])
    IN  IF Len(fields) < 2
        THEN [kind |-> "continue", err |-> "nil", rec |-> ZeroProtoent]
        ELSE LET num == ParseInt(fields[2])
             IN  IF num.err # "nil"
                 THEN [kind |-> "panic", err |-> num.err, rec |-> ZeroProtoent]
                 ELSE [kind |-> "append", err |-> "nil",
                       rec  |-> [Name    |-> fields[1],
                                 Aliases |-> SubSeq(fields, 3, Len(fields)),
                                 Number  |-> num.val]]

\* Faulty variant: a second field without "/" gets the empty protocol
ServLineOutcome_DefaultProtocol(rawline) ==
    LET line   == TrimSpace(rawline)
        split  == SplitN(line, "#")
        fields == Fields(split[1])
    IN  IF Len(fields) < 2
        THEN [kind |-> "continue", err |-> "nil", rec |-> ZeroServent]
        ELSE LET portproto == SplitN(fields[2], "/")
                 port      == ParseInt(portproto[1])
             IN  IF port.err # "nil"
                 THEN [kind |-> "panic", err |-> port.err, rec |-> ZeroServent]
                 ELSE [kind |-> "append", err |-> "nil",
                       rec  |-> [Name     |-> fields[1],
                                 Aliases  |-> SubSeq(fields, 3, Len(fields)),
                                 Port     |-> port.val,
                                 Protocol |-> IF Len(portproto) < 2 THEN <<>>
                                              ELSE portproto[2]]]

\* Faulty variant: the fields are taken from the whole line, comment included
ServLineOutcome_CommentKept(rawline) ==
    LET line   == TrimSpace(rawline)
        fields == Fields(line)
    IN  IF Len(fields) < 2
        THEN [kind |-> "continue", err |-> "nil", rec |-> ZeroServent]
        ELSE LET portproto == SplitN(fields[2], "/")
                 port      == ParseInt(portproto[1])
             IN  IF port.err # "nil"
                 THEN [kind |-> "panic", err |-> port.err, rec |-> ZeroServent]
                 ELSE IF Len(portproto) < 2
                 THEN [kind |-> "panic", err |-> "IndexOutOfRange", rec |-> ZeroServent]
                 ELSE [kind |-> "append", err |-> "nil",
                       rec  |-> [Name     |-> fields[1],
                                 Aliases  |-> SubSeq(fields, 3, Len(fields)),
                                 Port     |-> port.val,
                                 Protocol |-> portproto[2]]]

\* One iteration of the services loop.  portproto[1] on a one-element slice
\* is a run-time panic (index out of range), reached only when the port text
\* parsed
ServLineOutcome(rawline) ==
    LET line   == TrimSpace(rawline)
        split  == SplitN(line, "#")
        fields == Fields(split[1])
    IN  IF Len(fields) < 2
        THEN [kind |-> "continue", err |-> "nil", rec |-> ZeroServent]
        ELSE LET portproto == SplitN(fields[2], "/")
                 port      == ParseInt(portproto[1])
             IN  IF port.err # "nil"
                 THEN [kind |-> "panic", err |-> port.err, rec |-> ZeroServent]
                 ELSE IF Len(portproto) < 2
                 THEN [kind |-> "panic", err |-> "IndexOutOfRange", rec |-> ZeroServent]
                 ELSE [kind |-> "append", err |-> "nil",
                       rec  |-> [Name     |-> fields[1],
                                 Aliases  |-> SubSeq(fields, 3, Len(fields)),
                                 Port     |-> port.val,
                                 Protocol |-> portproto[2]]]

-----------------------------------------------------------------------------
(* The lookup functions, as scans of the package variables from index 1 *)

RECURSIVE ScanProtoByNumber(_, _)
ScanProtoByNumber(i, num) ==
    IF i > Len(Protocols) THEN [rec |-> ZeroProtoent, ok |-> FALSE]
    ELSE IF Protocols[i].Number = num THEN [rec |-> Protocols[i], ok |-> TRUE]
    ELSE ScanProtoByNumber(i + 1, num)

\* Faulty variant: the scan keeps going, so the last match wins
RECURSIVE ScanProtoByNumberLast(_, _, _)
ScanProtoByNumberLast(i, num, found) ==
    IF i > Len(Protocols) THEN found
    ELSE ScanProtoByNumberLast(i + 1, num,
             IF Protocols[i].Number = num
             THEN [rec |-> Protocols[i], ok |-> TRUE]
             ELSE found)

GetProtoByNumber_LastMatch(num) ==
    ScanProtoByNumberLast(1, num, [rec |-> ZeroProtoent, ok |-> FALSE])

GetProtoByNumber(num) == ScanProtoByNumber(1, num)

\* the inner loop over protoent.Aliases / servent.Aliases
RECURSIVE AliasMatch(_, _, _)
AliasMatch(aliases, j, name) ==
    IF j > Len(aliases) THEN FALSE
    ELSE IF aliases[j] = name THEN TRUE
    ELSE AliasMatch(aliases, j + 1, name)

RECURSIVE ScanProtoByName(_, _)
ScanProtoByName(i, name) ==
    IF i > Len(Protocols) THEN [rec |-> ZeroProtoent, ok |-> FALSE]
    ELSE IF Protocols[i].Name = name THEN [rec |-> Protocols[i], ok |-> TRUE]
    ELSE IF AliasMatch(Protocols[i].Aliases, 1, name)
         THEN [rec |-> Protocols[i], ok |-> TRUE]
    ELSE ScanProtoByName(i + 1, name)

\* Faulty variant: every Name is compared before any alias
RECURSIVE ScanProtoByNameOnly(_, _)
ScanProtoByNameOnly(i, name) ==
    IF i > Len(Protocols) THEN [rec |-> ZeroProtoent, ok |-> FALSE]
    ELSE IF Protocols[i].Name = name THEN [rec |-> Protocols[i], ok |-> TRUE]
    ELSE ScanProtoByNameOnly(i + 1, name)

GetProtoByName_NamesFirst(name) ==
    IF ScanProtoByNameOnly(1, name).ok
    THEN ScanProtoByNameOnly(1, name)
    ELSE ScanProtoByName(1, name)

GetProtoByName(name) == ScanProtoByName(1, name)

RECURSIVE ScanServByName(_, _, _)
ScanServByName(i, name, protocol) ==
    IF i > Len(Services) THEN [rec |-> ZeroServent, ok |-> FALSE]
    ELSE IF Services[i].Protocol # protocol /\ protocol # <<>>
         THEN ScanServByName(i + 1, name, protocol)
    ELSE IF Services[i].Name = name THEN [rec |-> Services[i], ok |-> TRUE]
    ELSE IF AliasMatch(Services[i].Aliases, 1, name)
         THEN [rec |-> Services[i], ok |-> TRUE]
    ELSE ScanServByName(i + 1, name, protocol)

\* Faulty variant: the empty protocol is compared like any other
RECURSIVE ScanServByNameStrict(_, _, _)
ScanServByNameStrict(i, name, protocol) ==
    IF i > Len(Services) THEN [rec |-> ZeroServent, ok |-> FALSE]
    ELSE IF Services[i].Protocol # protocol
         THEN ScanServByNameStrict(i + 1, name, protocol)
    ELSE IF Services[i].Name = name THEN [rec |-> Services[i], ok |-> TRUE]
    ELSE IF AliasMatch(Services[i].Aliases, 1, name)
         THEN [rec |-> Services[i], ok |-> TRUE]
    ELSE ScanServByNameStrict(i + 1, name, protocol)

GetServByName_NoWildcard(name, protocol) == ScanServByNameStrict(1, name, protocol)

GetServByName(name, protocol) == ScanServByName(1, name, protocol)

RECURSIVE ScanServByPort(_, _, _)
ScanServByPort(i, port, protocol) ==
    IF i > Len(Services) THEN [rec |-> ZeroServent, ok |-> FALSE]
    ELSE IF Services[i].Port = port
            /\ (Services[i].Protocol = protocol \/ protocol = <<>>)
         THEN [rec |-> Services[i], ok |-> TRUE]
    ELSE ScanServByPort(i + 1, port, protocol)

\* Faulty variant: the protocol is not compared
RECURSIVE ScanServByPortOnly(_, _, _)
ScanServByPortOnly(i, port, protocol) ==
    IF i > Len(Services) THEN [rec |-> ZeroServent, ok |-> FALSE]
    ELSE IF Services[i].Port = port THEN [rec |-> Services[i], ok |-> TRUE]
    ELSE ScanServByPortOnly(i + 1, port, protocol)

GetServByPort_AnyProtocol(port, protocol) == ScanServByPortOnly(1, port, protocol)

GetServByPort(port, protocol) == ScanServByPort(1, port, protocol)

-----------------------------------------------------------------------------
(* The source texts the model is run on *)

SP  == <<" ">>
TAB == <<"\t">>
NL  == <<"\n">>

w_tcp  == <<"t", "c", "p">>
w_TCP  == <<"T", "C", "P">>
w_udp  == <<"u", "d", "p">>
w_http == <<"h", "t", "t", "p">>
w_www  == <<"w", "w", "w">>
w_zz   == <<"z", "z">>
w_big  == <<"2", "1", "4", "7", "4", "8", "3", "6", "4", "8">>
w_max  == <<"2", "1", "4", "7", "4", "8", "3", "6", "4", "7">>

\* lines of a protocols file: records (aliases, duplicate number, name that
\* is another line's alias, the largest number), lines without a record
\* (comment-only, one field), lines with a bad number (text, out of range)
ProtoLines ==
    { w_tcp \o SP \o <<"6">> \o SP \o w_TCP,
      w_udp \o TAB \o <<"1", "7">> \o SP \o <<"#">> \o SP \o w_tcp \o SP \o <<"6">>,
      SP \o w_TCP \o SP \o SP \o <<"6">> \o SP \o w_tcp \o SP \o w_udp,
      w_zz \o SP \o w_max,
      <<"#">> \o w_tcp \o SP \o <<"6">>,
      w_udp \o SP \o <<"#">> \o <<"1", "7">>,
      w_tcp \o SP \o <<"s", "i", "x">> \o SP \o w_TCP,
      w_udp \o SP \o w_big }

\* lines of a services file: records, lines without a record, lines with a
\* bad port (text, out of range), lines without the "/" separator
ServLines ==
    { w_http \o SP \o <<"8", "0", "/">> \o w_tcp \o SP \o w_www,
      w_http \o TAB \o <<"8", "0", "/">> \o w_udp \o <<"#">> \o w_www,
      SP \o w_www \o SP \o <<"8", "1", "/">> \o w_udp \o SP \o w_zz \o SP \o w_http,
      <<"#">> \o w_www \o SP \o <<"8", "0", "/">> \o w_tcp,
      w_www \o SP \o <<"#">> \o <<"8", "0", "/">> \o w_tcp,
      w_www \o SP \o <<"x", "/">> \o w_tcp,
      w_www \o SP \o w_big \o <<"/">> \o w_tcp,
      w_www \o SP \o <<"8", "0">> \o SP \o w_tcp,
      w_www \o SP \o w_tcp }

\* every line followed by its line terminator
RECURSIVE Concat(_)
Concat(ls) ==
    IF ls = <<>> THEN <<>> ELSE Head(ls) \o NL \o Concat(Tail(ls))

\* the texts of at most n lines drawn from Lines
Texts(Lines, n) ==
    { Concat(ls) : ls \in UNION { [1..k -> Lines] : k \in 0..n } }

File(text) == [readable |-> TRUE, text |-> text]

\* a file ioutil.ReadFile fails on
Unreadable == [readable |-> FALSE, text |-> <<>>]

ProtoFiles == { File(t) : t \in Texts(ProtoLines, MaxLines) }

ServFiles == { File(t) : t \in Texts(ServLines, MaxLines) }

\* the protocols file while the services file varies: missing, loading two
\* records, failing
FewProtoFiles ==
    { Unreadable,
      File(<<>>),
      File(w_tcp \o SP \o <<"6">> \o NL \o w_udp \o SP \o <<"1", "7">> \o SP \o w_TCP \o NL),
      File(w_tcp \o SP \o <<"6">> \o NL \o w_udp \o SP \o w_TCP \o NL) }

\* the services file while the protocols file varies
FewServFiles ==
    { Unreadable,
      File(<<>>),
      File(w_http \o SP \o <<"8", "0", "/">> \o w_tcp \o NL \o w_www \o SP \o <<"8", "1", "/">> \o w_udp \o NL),
      File(w_http \o SP \o <<"8", "0", "/">> \o w_tcp \o NL \o w_www \o SP \o <<"8", "1">> \o NL) }

\* the arguments the program calls the lookups with
QueryNumbers == {0, 6, 17, MaxInt32}
ProtoQueryNames == {w_tcp, w_TCP, w_udp, w_www}
ServQueryNames == {w_http, w_www, w_zz, w_tcp}
QueryProtocols == {<<>>, w_tcp, w_udp}
QueryPorts == {0, 80, 81}

-----------------------------------------------------------------------------
(* The program *)

NoCall ==
    [fn |-> "none", num |-> 0, name |-> <<>>, protocol |-> <<>>,
     ok |-> FALSE, protoent |-> ZeroProtoent, servent |-> ZeroServent]

Start ==
    /\ pc = "start"
    /\ lines = <<>>
    /\ idx = 1
    /\ Protocols = <<>>
    /\ Services = <<>>
    /\ err = "nil"
    /\ ret = NoCall

Init ==
    /\ \/ protoFile \in ProtoFiles /\ servFile \in FewServFiles
       \/ protoFile \in FewProtoFiles /\ servFile \in ServFiles
    /\ Start

\* init, lines 37-42: read /etc/protocols, panic when that fails, else split
\* it into the lines the first loop ranges over
InitReadProtocols ==
    /\ pc = "start"
    /\ IF ~protoFile.readable
       THEN /\ pc' = "panicked"
            /\ err' = "ReadFile"
            /\ UNCHANGED <<lines, idx>>
       ELSE /\ pc' = "protocols"
            /\ lines' = Split(protoFile.text, "\n")
            /\ idx' = 1
            /\ UNCHANGED err
    /\ UNCHANGED <<protoFile, servFile, Protocols, Services, ret>>

\* init, lines 42-60: one iteration of the protocols loop
InitProtoLine ==
    /\ pc = "protocols"
    /\ idx <= Len(lines)
    /\ LET o == ProtoLineOutcome(lines[idx])
       IN  CASE o.kind = "continue" ->
                  /\ idx' = idx + 1
                  /\ UNCHANGED <<pc, err, Protocols>>
             [] o.kind = "panic" ->
                  /\ pc' = "panicked"
                  /\ err' = o.err
                  /\ UNCHANGED <<idx, Protocols>>
             [] o.kind = "append" ->
                  /\ Protocols' = Append(Protocols, o.rec)
                  /\ idx' = idx + 1
                  /\ UNCHANGED <<pc, err>>
    /\ UNCHANGED <<protoFile, servFile, lines, Services, ret>>

\* Faulty variant: the second ReadFile names /etc/protocols again
InitReadServices_WrongFile ==
    /\ pc = "protocols"
    /\ idx > Len(lines)
    /\ IF ~protoFile.readable
       THEN /\ pc' = "panicked"
            /\ err' = "ReadFile"
            /\ UNCHANGED <<lines, idx>>
       ELSE /\ pc' = "services"
            /\ lines' = Split(protoFile.text, "\n")
            /\ idx' = 1
            /\ UNCHANGED err
    /\ UNCHANGED <<protoFile, servFile, Protocols, Services, ret>>

\* init, lines 63-68: after the protocols loop, read /etc/services
InitReadServices ==
    /\ pc = "protocols"
    /\ idx > Len(lines)
    /\ IF ~servFile.readable
       THEN /\ pc' = "panicked"
            /\ err' = "ReadFile"
            /\ UNCHANGED <<lines, idx>>
       ELSE /\ pc' = "services"
            /\ lines' = Split(servFile.text, "\n")
            /\ idx' = 1
            /\ UNCHANGED err
    /\ UNCHANGED <<protoFile, servFile, Protocols, Services, ret>>

\* init, lines 68-92: one iteration of the services loop
InitServLine ==
    /\ pc = "services"
    /\ idx <= Len(lines)
    /\ LET o == ServLineOutcome(lines[idx])
       IN  CASE o.kind = "continue" ->
                  /\ idx' = idx + 1
                  /\ UNCHANGED <<pc, err, Services>>
             [] o.kind = "panic" ->
                  /\ pc' = "panicked"
                  /\ err' = o.err
                  /\ UNCHANGED <<idx, Services>>
             [] o.kind = "append" ->
                  /\ Services' = Append(Services, o.rec)
                  /\ idx' = idx + 1
                  /\ UNCHANGED <<pc, err>>
    /\ UNCHANGED <<protoFile, servFile, lines, Protocols, ret>>

\* init returns (line 93): the program proper starts and may call the lookups
InitReturn ==
    /\ pc = "services"
    /\ idx > Len(lines)
    /\ pc' = "ready"
    /\ UNCHANGED <<protoFile, servFile, lines, idx, Protocols, Services, err, ret>>

CallGetProtoByNumber ==
    /\ pc = "ready"
    /\ \E num \in QueryNumbers :
         LET r == GetProtoByNumber(num)
         IN  ret' = [NoCall EXCEPT !.fn = "GetProtoByNumber", !.num = num,
                                   !.ok = r.ok, !.protoent = r.rec]
    /\ UNCHANGED <<protoFile, servFile, pc, lines, idx, Protocols, Services, err>>

\* Faulty variant: the record found is moved to the front of Protocols
CallGetProtoByName_MoveToFront ==
    /\ pc = "ready"
    /\ \E name \in ProtoQueryNames :
         LET r == GetProtoByName(name)
         IN  /\ ret' = [NoCall EXCEPT !.fn = "GetProtoByName", !.name = name,
                                      !.ok = r.ok, !.protoent = r.rec]
             /\ Protocols' = IF r.ok
                             THEN <<r.rec>> \o SelectSeq(Protocols, LAMBDA p : p # r.rec)
                             ELSE Protocols
    /\ UNCHANGED <<protoFile, servFile, pc, lines, idx, Services, err>>

CallGetProtoByName ==
    /\ pc = "ready"
    /\ \E name \in ProtoQueryNames :
         LET r == GetProtoByName(name)
         IN  ret' = [NoCall EXCEPT !.fn = "GetProtoByName", !.name = name,
                                   !.ok = r.ok, !.protoent = r.rec]
    /\ UNCHANGED <<protoFile, servFile, pc, lines, idx, Protocols, Services, err>>

CallGetServByName ==
    /\ pc = "ready"
    /\ \E name \in ServQueryNames, protocol \in QueryProtocols :
         LET r == GetServByName(name, protocol)
         IN  ret' = [NoCall EXCEPT !.fn = "GetServByName", !.name = name,
                                   !.protocol = protocol,
                                   !.ok = r.ok, !.servent = r.rec]
    /\ UNCHANGED <<protoFile, servFile, pc, lines, idx, Protocols, Services, err>>

CallGetServByPort ==
    /\ pc = "ready"
    /\ \E port \in QueryPorts, protocol \in QueryProtocols :
         LET r == GetServByPort(port, protocol)
         IN  ret' = [NoCall EXCEPT !.fn = "GetServByPort", !.num = port,
                                   !.protocol = protocol,
                                   !.ok = r.ok, !.servent = r.rec]
    /\ UNCHANGED <<protoFile, servFile, pc, lines, idx, Protocols, Services, err>>

Load ==
    \/ InitReadProtocols
    \/ InitProtoLine
    \/ InitReadServices
    \/ InitServLine
    \/ InitReturn

Next ==
    \/ InitReadProtocols
    \/ InitProtoLine
    \/ InitReadServices
    \/ InitServLine
    \/ InitReturn
    \/ CallGetProtoByNumber
    \/ CallGetProtoByName
    \/ CallGetServByName
    \/ CallGetServByPort

Spec == Init /\ [][Next]_vars

\* The loader alone, run on every one-line text of at most MaxLineLen
\* characters as the protocols file and as the services file
LineAlphabet == {"a", "6", " ", "#", "/"}

LineTexts == UNION { [1..k -> LineAlphabet] : k \in 0..MaxLineLen }

InitLine ==
    /\ \E t \in LineTexts :
         \/ protoFile = File(t) /\ servFile \in {File(<<>>), Unreadable}
         \/ protoFile \in {File(<<>>), Unreadable} /\ servFile = File(t)
    /\ Start

LineSpec == InitLine /\ [][Load]_vars

-----------------------------------------------------------------------------
(* Vocabulary of the properties *)

Min(S) == CHOOSE i \in S : \A j \in S : i <= j

IsElem(x, seq) == \E j \in DOMAIN seq : seq[j] = x

\* the text before the first "#" of a line
BeforeHash(line) ==
    LET H == { i \in DOMAIN line : line[i] = "#" }
    IN  IF H = {} THEN line ELSE SubSeq(line, 1, Min(H) - 1)

\* the white-space separated fields of a line after comment removal
LineFields(line) == Fields(BeforeHash(line))

RECURSIVE StripZeros(_)
StripZeros(d) ==
    IF Len(d) > 1 /\ Head(d) = "0" THEN StripZeros(Tail(d)) ELSE d

\* a <= b for two digit strings of equal length
DigitsLeq(a, b) ==
    \A i \in DOMAIN a :
        (\A j \in 1..(i - 1) : a[j] = b[j]) => DigitVal(a[i]) <= DigitVal(b[i])

\* s is a base-10 integer (an optional sign, then digits) within
\* [-2147483648, 2147483647]
IsInt32Text(s) ==
    LET neg == s # <<>> /\ s[1] = "-"
        d   == IF s # <<>> /\ s[1] \in {"+", "-"} THEN Tail(s) ELSE s
        m   == StripZeros(d)
    IN  /\ d # <<>>
        /\ \A i \in DOMAIN d : d[i] \in Digits
        /\ \/ Len(m) < Len(w_max)
           \/ Len(m) = Len(w_max) /\ DigitsLeq(m, IF neg THEN w_big ELSE w_max)

\* the port part of the second field of a service line
PortText(field) ==
    LET S == { i \in DOMAIN field : field[i] = "/" }
    IN  IF S = {} THEN field ELSE SubSeq(field, 1, Min(S) - 1)

BadProtoLine(line) ==
    Len(LineFields(line)) >= 2 /\ ~IsInt32Text(LineFields(line)[2])

BadServLine(line) ==
    Len(LineFields(line)) >= 2 /\ ~IsInt32Text(PortText(LineFields(line)[2]))

NoSlashLine(line) ==
    /\ Len(LineFields(line)) >= 2
    /\ \A i \in DOMAIN LineFields(line)[2] : LineFields(line)[2][i] # "/"

ShortLine(line) == Len(LineFields(line)) < 2

ProtoSource == Split(protoFile.text, "\n")
ServSource == Split(servFile.text, "\n")

Panicked == pc = "panicked"

AtProtoLine == pc = "protocols" /\ idx <= Len(lines)
AtServLine == pc = "services" /\ idx <= Len(lines)

-----------------------------------------------------------------------------
(* C1 *)

ProtoNumberMatches(n) == { i \in DOMAIN Protocols : Protocols[i].Number = n }

\* C1: GetProtoByNumber(n) returns (r, true) with r the record at the smallest
\* index whose Number is n, and (zero value, false) exactly when no record has
\* Number n.
C1_FirstByNumber ==
    ret.fn = "GetProtoByNumber" =>
        LET M == ProtoNumberMatches(ret.num)
        IN  /\ ret.ok <=> M # {}
            /\ M # {} => ret.protoent = Protocols[Min(M)]
            /\ M = {} => ret.protoent = ZeroProtoent

C1_Witness ==
    /\ ret.fn = "GetProtoByNumber"
    /\ Cardinality(ProtoNumberMatches(ret.num)) >= 2
    /\ \E i \in ProtoNumberMatches(ret.num) : Protocols[i] # ret.protoent
    /\ ret.ok

-----------------------------------------------------------------------------
(* C2 *)

ProtoNameMatches(s) ==
    { i \in DOMAIN Protocols :
        Protocols[i].Name = s \/ IsElem(s, Protocols[i].Aliases) }

\* C2: GetProtoByName(s) returns the record at the smallest index whose Name
\* is s or whose Aliases hold s, and not-found exactly when there is none; a
\* record named s wins over a later record with alias s.
C2_FirstByNameOrAlias ==
    ret.fn = "GetProtoByName" =>
        LET M == ProtoNameMatches(ret.name)
        IN  /\ ret.ok <=> M # {}
            /\ M # {} => ret.protoent = Protocols[Min(M)]
            /\ M = {} => ret.protoent = ZeroProtoent
            /\ \A b \in DOMAIN Protocols :
                  (/\ Protocols[b].Name = ret.name
                   /\ \A a \in 1..(b - 1) : a \notin M)
                  => ret.protoent = Protocols[b]

\* the name asked for is the name of the first record and an alias of a later,
\* different record
C2_Witness ==
    /\ ret.fn = "GetProtoByName"
    /\ Len(Protocols) >= 2
    /\ Protocols[1].Name = ret.name
    /\ IsElem(ret.name, Protocols[2].Aliases)
    /\ Protocols[2].Name # ret.name
    /\ ret.ok
    /\ ret.protoent = Protocols[1]

-----------------------------------------------------------------------------
(* C3 *)

ServNameMatches(name) ==
    { i \in DOMAIN Services :
        Services[i].Name = name \/ IsElem(name, Services[i].Aliases) }

ServProtocolMatches(protocol) ==
    { i \in DOMAIN Services : Services[i].Protocol = protocol \/ protocol = <<>> }

\* C3: GetServByName(name, protocol) returns the first record whose Protocol
\* is protocol (any, when protocol is empty) and whose Name or Aliases hold
\* name, and not-found exactly when there is none; with an empty protocol the
\* result is the first record matching name, whatever its Protocol.
C3_FirstByNameAndProtocol ==
    ret.fn = "GetServByName" =>
        LET M == ServNameMatches(ret.name) \cap ServProtocolMatches(ret.protocol)
        IN  /\ ret.ok <=> M # {}
            /\ M # {} => ret.servent = Services[Min(M)]
            /\ M = {} => ret.servent = ZeroServent
            /\ ret.protocol = <<>> => M = ServNameMatches(ret.name)

\* a record matching the name is passed over for its protocol
C3_Witness ==
    /\ ret.fn = "GetServByName"
    /\ ret.protocol # <<>>
    /\ Len(Services) >= 2
    /\ 1 \in ServNameMatches(ret.name)
    /\ Services[1].Protocol # ret.protocol
    /\ ret.ok
    /\ ret.servent = Services[2]

-----------------------------------------------------------------------------
(* C4 *)

ServPortMatches(port) == { i \in DOMAIN Services : Services[i].Port = port }

\* C4: GetServByPort(port, protocol) returns the first record whose Port is
\* port and whose Protocol is protocol (any, when protocol is empty); so a
\* record (port, proto) is found by (port, proto) and by (port, ""), and
\* (port, other) is not found when no record of that port has protocol other.
C4_FirstByPortAndProtocol ==
    ret.fn = "GetServByPort" =>
        LET M == ServPortMatches(ret.num) \cap ServProtocolMatches(ret.protocol)
        IN  /\ ret.ok <=> M # {}
            /\ M # {} => ret.servent = Services[Min(M)]
            /\ M = {} => ret.servent = ZeroServent
            /\ (\E i \in DOMAIN Services :
                    /\ Services[i].Port = ret.num
                    /\ ret.protocol \in {Services[i].Protocol, <<>>}) => ret.ok
            /\ (\A i \in ServPortMatches(ret.num) :
                    Services[i].Protocol # ret.protocol /\ ret.protocol # <<>>)
               => ~ret.ok

\* the port is in the table, under another protocol only
C4_Witness ==
    /\ ret.fn = "GetServByPort"
    /\ ServPortMatches(ret.num) # {}
    /\ ~ret.ok
    /\ ret.servent = ZeroServent
-----------------------------------------------------------------------------
(* C5 *)

\* no line with a bad numeric field has been passed by a loop, init has not
\* returned over one, and the lookups answer only after init has returned
C5_State ==
    /\ pc = "protocols" => \A j \in 1..(idx - 1) : ~BadProtoLine(lines[j])
    /\ pc \in {"services", "ready"} =>
          \A j \in DOMAIN ProtoSource : ~BadProtoLine(ProtoSource[j])
    /\ pc = "services" => \A j \in 1..(idx - 1) : ~BadServLine(lines[j])
    /\ pc = "ready" => \A j \in DOMAIN ServSource : ~BadServLine(ServSource[j])
    /\ ret # NoCall => pc = "ready"

\* the iteration on such a line panics and appends nothing
C5_Step ==
    /\ AtProtoLine /\ BadProtoLine(lines[idx]) =>
          pc' = "panicked" /\ err' \in {"ErrSyntax", "ErrRange"} /\ Protocols' = Protocols
    /\ AtServLine /\ BadServLine(lines[idx]) =>
          pc' = "panicked" /\ err' \in {"ErrSyntax", "ErrRange"} /\ Services' = Services
    /\ Panicked => UNCHANGED vars

\* C5: a line of at least two fields whose protocol number, or port text
\* before "/", is no base-10 integer within the signed 32-bit range makes init
\* panic instead of skipping the line, and no lookup is ever answered from the
\* records appended before it.
C5_BadNumberIsFatal == []C5_State /\ [][C5_Step]_vars

\* init panicked on an out-of-range protocol number after appending a record
C5_Witness ==
    /\ Panicked
    /\ err = "ErrRange"
    /\ lines = ProtoSource
    /\ BadProtoLine(lines[idx])
    /\ Protocols # <<>>
    /\ Services = <<>>

-----------------------------------------------------------------------------
(* C6 *)

C6_State ==
    /\ pc = "services" => \A j \in 1..(idx - 1) : ~NoSlashLine(lines[j])
    /\ pc = "ready" => \A j \in DOMAIN ServSource : ~NoSlashLine(ServSource[j])

C6_Step ==
    AtServLine /\ NoSlashLine(lines[idx]) =>
        pc' = "panicked" /\ err' # "nil" /\ Services' = Services

\* C6: a service line of at least two fields whose second field holds no "/"
\* makes init panic, whatever that field is; it yields no record and is not
\* skipped.
C6_MissingSeparatorIsFatal == []C6_State /\ [][C6_Step]_vars

\* the second field is a valid port without "/": the index panic
C6_Witness ==
    /\ Panicked
    /\ err = "IndexOutOfRange"
    /\ lines = ServSource
    /\ NoSlashLine(lines[idx])
    /\ IsInt32Text(LineFields(lines[idx])[2])

-----------------------------------------------------------------------------
(* C7 *)

RecordLines(source) == { i \in DOMAIN source : ~ShortLine(source[i]) }

\* the k-th smallest element of a set of indices
Nth(S, k) == CHOOSE i \in S : Cardinality({ j \in S : j < i }) = k - 1

C7_State ==
    pc = "ready" =>
        /\ Len(Protocols) = Cardinality(RecordLines(ProtoSource))
        /\ \A k \in DOMAIN Protocols :
              LET f == LineFields(ProtoSource[Nth(RecordLines(ProtoSource), k)])
              IN  /\ Protocols[k].Name = f[1]
                  /\ Protocols[k].Aliases = SubSeq(f, 3, Len(f))
                  /\ Protocols[k].Number = ParseInt(f[2]).val
        /\ Len(Services) = Cardinality(RecordLines(ServSource))
        /\ \A k \in DOMAIN Services :
              LET f == LineFields(ServSource[Nth(RecordLines(ServSource), k)])
              IN  /\ Services[k].Name = f[1]
                  /\ Services[k].Aliases = SubSeq(f, 3, Len(f))
                  /\ Services[k].Port = ParseInt(PortText(f[2])).val

C7_Step ==
    (AtProtoLine \/ AtServLine) /\ ShortLine(lines[idx]) =>
        /\ pc' = pc
        /\ err' = "nil"
        /\ idx' = idx + 1
        /\ Protocols' = Protocols
        /\ Services' = Services

\* C7: after a successful load each table holds exactly one record per source
\* line with at least two fields after comment removal, in line order; blank,
\* comment-only and one-field lines are passed without a record or a failure
\* and leave the other records as they are.
C7_OneRecordPerLine == []C7_State /\ [][C7_Step]_vars

\* loaded: a record from the line after a skipped comment or one-field line
C7_Witness ==
    /\ pc = "ready"
    /\ Len(ProtoSource) >= 2
    /\ ShortLine(ProtoSource[1])
    /\ ProtoSource[1] # <<>>
    /\ ~ShortLine(ProtoSource[2])
    /\ Len(Protocols) = 1

-----------------------------------------------------------------------------
(* C8 *)

\* the iteration on a line does what the iteration on the text before the
\* line's first "#" does
C8_Step ==
    /\ AtProtoLine =>
          LET o == ProtoLineOutcome(BeforeHash(lines[idx]))
          IN  /\ o.kind = "continue" =>
                    pc' = pc /\ idx' = idx + 1 /\ Protocols' = Protocols
              /\ o.kind = "panic" =>
                    pc' = "panicked" /\ err' = o.err /\ Protocols' = Protocols
              /\ o.kind = "append" =>
                    pc' = pc /\ idx' = idx + 1 /\ Protocols' = Append(Protocols, o.rec)
    /\ AtServLine =>
          LET o == ServLineOutcome(BeforeHash(lines[idx]))
          IN  /\ o.kind = "continue" =>
                    pc' = pc /\ idx' = idx + 1 /\ Services' = Services
              /\ o.kind = "panic" =>
                    pc' = "panicked" /\ err' = o.err /\ Services' = Services
              /\ o.kind = "append" =>
                    pc' = pc /\ idx' = idx + 1 /\ Services' = Append(Services, o.rec)

\* C8: what a line loads to depends only on the text before its first "#": the
\* line L followed by a comment gives the same record, or is skipped or fatal
\* in the same way, as L alone.
C8_CommentIsIgnored == [][C8_Step]_vars

\* a record was appended from a line whose comment holds a digit, "/" or "#"
C8_Witness ==
    /\ pc \in {"protocols", "services"}
    /\ idx = 2
    /\ Len(Protocols) + Len(Services) = 1
    /\ \E i \in DOMAIN lines[1] :
          /\ lines[1][i] = "#"
          /\ i < Len(lines[1])
          /\ lines[1][i + 1] \in {"6", "/", "#"}

-----------------------------------------------------------------------------
(* C9 *)

PcRank ==
    CASE pc = "start" -> 0
      [] pc = "protocols" -> 1
      [] pc = "services" -> 2
      [] pc = "ready" -> 3
      [] pc = "panicked" -> 4

PcRankNext ==
    CASE pc' = "start" -> 0
      [] pc' = "protocols" -> 1
      [] pc' = "services" -> 2
      [] pc' = "ready" -> 3
      [] pc' = "panicked" -> 4

SameCall ==
    /\ ret'.fn = ret.fn
    /\ ret'.num = ret.num
    /\ ret'.name = ret.name
    /\ ret'.protocol = ret.protocol

C9_Step ==
    /\ PcRankNext >= PcRank
    /\ Protocols' # Protocols => pc = "protocols"
    /\ Services' # Services => pc = "services"
    /\ ret' # ret => pc = "ready"
    /\ pc = "ready" => pc' = "ready" /\ Protocols' = Protocols /\ Services' = Services
    /\ SameCall => ret' = ret

\* C9: each table is built in its one loading phase, before any lookup is
\* called, and no lookup changes it: after init has returned Protocols and
\* Services keep their value, and a lookup repeated with the same arguments
\* returns the same result.
C9_TablesAreFrozen == [][C9_Step]_vars

\* a lookup has been answered from loaded, non-empty tables
C9_Witness ==
    /\ pc = "ready"
    /\ ret.ok
    /\ Protocols # <<>>
    /\ Services # <<>>

-----------------------------------------------------------------------------
(* C10 *)

RECURSIVE ProtoRecords(_)
ProtoRecords(source) ==
    IF source = <<>> THEN <<>>
    ELSE LET o == ProtoLineOutcome(Head(source))
         IN  (IF o.kind = "append" THEN <<o.rec>> ELSE <<>>)
             \o ProtoRecords(Tail(source))

RECURSIVE ServRecords(_)
ServRecords(source) ==
    IF source = <<>> THEN <<>>
    ELSE LET o == ServLineOutcome(Head(source))
         IN  (IF o.kind = "append" THEN <<o.rec>> ELSE <<>>)
             \o ServRecords(Tail(source))

\* the file alone holds no fatal condition
ProtoLoadable ==
    /\ protoFile.readable
    /\ \A j \in DOMAIN ProtoSource : ProtoLineOutcome(ProtoSource[j]).kind # "panic"

ServLoadable ==
    /\ servFile.readable
    /\ \A j \in DOMAIN ServSource : ServLineOutcome(ServSource[j]).kind # "panic"

Finished == pc \in {"ready", "panicked"}

\* C10 as claimed: each table's load succeeds or fails on its own source alone.
C10_Independent ==
    Finished =>
        /\ ProtoLoadable <=> (pc = "ready" /\ Protocols = ProtoRecords(ProtoSource))
        /\ ServLoadable <=> (pc = "ready" /\ Services = ServRecords(ServSource))

\* C10 as amended: the records of a loaded table depend on its own source
\* only, but the loads are one sequence: the services are loaded only after
\* the protocols loaded without a fatal condition, and a fatal condition in
\* either source panics the process, which leaves neither table to a lookup.
C10_OneLoadSequence ==
    /\ pc \in {"services", "ready"} =>
          ProtoLoadable /\ Protocols = ProtoRecords(ProtoSource)
    /\ pc = "ready" => ServLoadable /\ Services = ServRecords(ServSource)
    /\ ~ProtoLoadable => Services = <<>>
    /\ ~(ProtoLoadable /\ ServLoadable) => ret = NoCall
    /\ Finished /\ ProtoLoadable /\ ServLoadable => pc = "ready"

\* the services file holds records and no fatal condition, and is not loaded
\* because the protocols file made init panic
C10_Witness ==
    /\ Panicked
    /\ ~ProtoLoadable
    /\ ServLoadable
    /\ ServRecords(ServSource) # <<>>
    /\ Services = <<>>

====
